---- MODULE Spec2Model ----
(***************************************************************************)
(* Model of go-phoenix: the llmops tracing adapter (Provider, traceWrapper,*)
(* spanWrapper and request-scoped context propagation), the evals          *)
(* Evaluator and the REST client configuration resolver.                   *)
(*                                                                         *)
(* Strings that are identifiers are modelled as tuples: the empty string   *)
(* is <<>>, a trace ID is <<"T", n>> and a span ID is <<"S", n>>, so that a*)
(* trace ID never equals a span ID (32 versus 16 hex digits in the code).  *)
(***************************************************************************)
EXTENDS Integers, Sequences, FiniteSets, TLC

VARIABLES
    ctxs,       \* context.Context values created so far (0 is context.Background())
    otelSpans,  \* OTEL spans created by the tracer: their span contexts
    traces,     \* traceWrapper objects
    spans,      \* spanWrapper objects
    calls,      \* history of the tracing calls: operation, receiver, context in/out, result
    evaluator,  \* the evals.Evaluator under test (NoEvaluator before construction)
    evalCall,   \* the Evaluate call made: its arguments and what it did
    env,        \* the process environment: the PHOENIX_* variables
    clientCall, \* the configuration call made: its arguments and what it did
    otelCall,   \* the otel configuration call made (DefaultConfig / Register)
    authClient, \* the authHTTPClient a Client sends its requests through
    sentRequests, \* the requests the wrapped http.Client received, in order
    provider,   \* the llmops Provider: projectName and its TracerProvider's config
    projectLog, \* the SetProject calls and the traces projectLog, in order
    parsed,     \* the annotator-kind parser calls made and their results
    clock,      \* time.Now()
    wrappers    \* the trace and span wrappers whose lifecycle is followed

traceVars == <<ctxs, otelSpans, traces, spans, calls>>
evalVars == <<evaluator, evalCall>>
configVars == <<env, clientCall>>
otelVars == <<otelCall>>
transportVars == <<authClient, sentRequests>>
projectVars == <<provider, projectLog>>
kindVars == <<parsed>>
lifeVars == <<clock, wrappers>>
moreVars == <<otelVars, transportVars, projectVars, kindVars, lifeVars>>
vars == <<traceVars, evalVars, configVars, moreVars>>

\* number of tracing calls (StartTrace / StartSpan) explored
MaxCalls == 4

Background == 0
NoID == <<>>

(***************************************************************************)
(* context.Context: a chain of (key, value) nodes                          *)
(***************************************************************************)

\* context.WithValue(parent, key, val): a new node on top of parent; the
\* parent is left untouched. The new context is the last index of the result.
WithValue(cs, parent, key, val) ==
    Append(cs, [parent |-> parent, key |-> key, val |-> val])

\* ctx.Value(key): the innermost value stored under key, 0 (nil) when none
RECURSIVE Value(_, _, _)
Value(cs, c, key) ==
    IF c = Background THEN 0
    ELSE IF cs[c].key = key THEN cs[c].val
    ELSE Value(cs, cs[c].parent, key)

\* c is a or was derived from a (a is on the chain of c)
RECURSIVE Derived(_, _, _)
Derived(cs, c, a) ==
    IF c = a THEN TRUE
    ELSE IF c = Background THEN FALSE
    ELSE Derived(cs, cs[c].parent, a)

\* mutant: the trace is stored under a key traceFromContext does not read
contextWithTraceWrongKey(cs, ctx, t) == WithValue(cs, ctx, "traceKey", t)

contextWithTrace(cs, ctx, t) == WithValue(cs, ctx, "traceContextKey", t)

traceFromContext(cs, ctx) == Value(cs, ctx, "traceContextKey")

\* mutant: the span is stored in a fresh context, not on top of ctx
contextWithSpanOnBackground(cs, ctx, s) ==
    WithValue(cs, Background, "spanContextKey", s)

contextWithSpan(cs, ctx, s) == WithValue(cs, ctx, "spanContextKey", s)

spanFromContext(cs, ctx) == Value(cs, ctx, "spanContextKey")

(***************************************************************************)
(* The OTEL tracer behind Provider.tracer                                  *)
(***************************************************************************)

\* tracer.Start(ctx, name), called without trace.WithNewRoot(): the new span
\* is a child of the OTEL span ctx carries and shares its trace ID; without
\* one it is the root of a new trace. The span ID is always new. The span is
\* stored in the returned context.
tracerStart(cs, os, ctx) ==
    LET parent == Value(cs, ctx, "otelSpanKey")
        n      == Len(os) + 1
        sc     == [traceID |-> IF parent # 0 THEN os[parent].traceID ELSE <<"T", n>>,
                   spanID  |-> <<"S", n>>]
    IN  [ctxs |-> WithValue(cs, ctx, "otelSpanKey", n),
         otel |-> Append(os, sc),
         span |-> n]

(***************************************************************************)
(* traceWrapper and spanWrapper                                            *)
(***************************************************************************)

newTrace(otelSpan) == [otelSpan |-> otelSpan]

newSpan(otelSpan, traceID, parentSpanID) ==
    [otelSpan |-> otelSpan, traceID |-> traceID, parentSpanID |-> parentSpanID]

\* traceWrapper.ID()
traceWrapperID(os, t) == os[t.otelSpan].traceID

\* spanWrapper.ID()
spanWrapperID(os, s) == os[s.otelSpan].spanID

\* spanWrapper.TraceID()
spanWrapperTraceID(os, s) ==
    IF s.traceID = NoID THEN os[s.otelSpan].traceID ELSE s.traceID

\* spanWrapper.ParentSpanID()
spanWrapperParentSpanID(s) == s.parentSpanID

(***************************************************************************)
(* Provider                                                                *)
(***************************************************************************)

\* Provider.TraceFromContext
TraceFromContext(cs, ctx) ==
    LET t == traceFromContext(cs, ctx)
    IN  IF t = 0 THEN [ok |-> FALSE, v |-> 0] ELSE [ok |-> TRUE, v |-> t]

\* Provider.SpanFromContext
SpanFromContext(cs, ctx) ==
    LET s == spanFromContext(cs, ctx)
    IN  IF s = 0 THEN [ok |-> FALSE, v |-> 0] ELSE [ok |-> TRUE, v |-> s]

\* mutant: the span of the context is asked for its trace ID first
providerParentTraceIDSpanFirst(cs, os, ts, ss, ctx) ==
    LET t == traceFromContext(cs, ctx)
        s == spanFromContext(cs, ctx)
    IN  IF s # 0 THEN spanWrapperTraceID(os, ss[s])
        ELSE IF t # 0 THEN traceWrapperID(os, ts[t]) ELSE NoID

\* the trace ID and parent span ID Provider.StartSpan takes from the context
providerParentTraceID(cs, os, ts, ss, ctx) ==
    LET t == traceFromContext(cs, ctx)
        s == spanFromContext(cs, ctx)
        fromTrace == IF t # 0 THEN traceWrapperID(os, ts[t]) ELSE NoID
    IN  IF s # 0 /\ fromTrace = NoID THEN spanWrapperTraceID(os, ss[s]) ELSE fromTrace

providerParentSpanID(cs, os, ss, ctx) ==
    LET s == spanFromContext(cs, ctx)
    IN  IF s # 0 THEN spanWrapperID(os, ss[s]) ELSE NoID

\* contexts a caller can hold: Background and every context a call returned
UserCtxs == {Background} \cup {calls[k].ctxOut : k \in DOMAIN calls}

Record(op, recv, ctxIn, ctxOut, ret) ==
    [op |-> op, recv |-> recv, ctxIn |-> ctxIn, ctxOut |-> ctxOut, ret |-> ret]

\* Provider.StartTrace(ctx, name)
StartTrace(ctx) ==
    /\ Len(calls) < MaxCalls
    /\ LET r   == tracerStart(ctxs, otelSpans, ctx)
           t   == newTrace(r.span)
           ti  == Len(traces) + 1
           cs2 == contextWithTrace(r.ctxs, Len(r.ctxs), ti)
       IN  /\ ctxs' = cs2
           /\ otelSpans' = r.otel
           /\ traces' = Append(traces, t)
           /\ calls' = Append(calls, Record("StartTrace", 0, ctx, Len(cs2), ti))
    /\ UNCHANGED <<spans, evalVars, configVars, moreVars>>

\* the common tail of the three StartSpan operations
startSpanWith(op, recv, ctx, tid, psid) ==
    LET r   == tracerStart(ctxs, otelSpans, ctx)
        s   == newSpan(r.span, tid, psid)
        si  == Len(spans) + 1
        cs2 == contextWithSpan(r.ctxs, Len(r.ctxs), si)
    IN  /\ ctxs' = cs2
        /\ otelSpans' = r.otel
        /\ spans' = Append(spans, s)
        /\ calls' = Append(calls, Record(op, recv, ctx, Len(cs2), si))
        /\ UNCHANGED <<traces, evalVars, configVars, moreVars>>

\* Provider.StartSpan(ctx, name)
StartSpan(ctx) ==
    /\ Len(calls) < MaxCalls
    /\ startSpanWith("Provider.StartSpan", 0, ctx,
                     providerParentTraceID(ctxs, otelSpans, traces, spans, ctx),
                     providerParentSpanID(ctxs, otelSpans, spans, ctx))

\* the arguments traceWrapper.StartSpan passes to newSpan
traceChildTraceID(os, t) == traceWrapperID(os, t)
traceChildParentSpanID(os, t) == NoID

\* traceWrapper.StartSpan(ctx, name)
traceStartSpan(t, ctx) ==
    /\ Len(calls) < MaxCalls
    /\ startSpanWith("trace.StartSpan", t, ctx,
                     traceChildTraceID(otelSpans, traces[t]),
                     traceChildParentSpanID(otelSpans, traces[t]))

\* mutant: no parent span ID, as in traceWrapper.StartSpan
spanChildParentSpanIDEmpty(os, s) == NoID

\* the arguments spanWrapper.StartSpan passes to newSpan
spanChildTraceID(os, s) == spanWrapperTraceID(os, s)
spanChildParentSpanID(os, s) == spanWrapperID(os, s)

\* spanWrapper.StartSpan(ctx, name)
spanStartSpan(s, ctx) ==
    /\ Len(calls) < MaxCalls
    /\ startSpanWith("span.StartSpan", s, ctx,
                     spanChildTraceID(otelSpans, spans[s]),
                     spanChildParentSpanID(otelSpans, spans[s]))

TraceInit ==
    /\ ctxs = <<>>
    /\ otelSpans = <<>>
    /\ traces = <<>>
    /\ spans = <<>>
    /\ calls = <<>>

NoEvaluator == [made |-> FALSE]
NoCall == [op |-> "none"]

EvalIdle ==
    /\ evaluator = NoEvaluator
    /\ evalCall = NoCall

\* the four variables unset
NoEnv ==
    [PHOENIX_URL |-> <<>>, PHOENIX_API_KEY |-> <<>>,
     PHOENIX_PROJECT_NAME |-> <<>>, PHOENIX_SPACE_ID |-> <<>>]

ConfigIdle ==
    /\ env = NoEnv
    /\ clientCall = NoCall

\* the tracing adapter: a Provider that is open, and no call made yet
NoClient == [made |-> FALSE]
NoProvider == [made |-> FALSE]

OtelIdle == otelCall = NoCall

TransportIdle ==
    /\ authClient = NoClient
    /\ sentRequests = <<>>

ProjectIdle ==
    /\ provider = NoProvider
    /\ projectLog = <<>>

KindIdle == parsed = <<>>

LifeIdle ==
    /\ clock = 0
    /\ wrappers = <<>>

MoreIdle == OtelIdle /\ TransportIdle /\ ProjectIdle /\ KindIdle /\ LifeIdle

Init == TraceInit /\ EvalIdle /\ ConfigIdle /\ MoreIdle

Next ==
    \/ \E ctx \in UserCtxs : StartTrace(ctx)
    \/ \E ctx \in UserCtxs : StartSpan(ctx)
    \/ \E ctx \in UserCtxs : \E t \in DOMAIN traces : traceStartSpan(t, ctx)
    \/ \E ctx \in UserCtxs : \E s \in DOMAIN spans : spanStartSpan(s, ctx)

Spec == Init /\ [][Next]_vars

(***************************************************************************)
(* Tracing: properties                                                     *)
(***************************************************************************)

StartTraceCalls == {k \in DOMAIN calls : calls[k].op = "StartTrace"}
StartSpanCalls == DOMAIN calls \ StartTraceCalls
ProviderSpanCalls == {k \in DOMAIN calls : calls[k].op = "Provider.StartSpan"}

\* the ID() of the trace / span a call returned
RetTraceID(k) == traceWrapperID(otelSpans, traces[calls[k].ret])
RetSpanID(k) == spanWrapperID(otelSpans, spans[calls[k].ret])

\* C1: TraceFromContext reports no trace for a context in which no trace was
\* started (Background, and every context no StartTrace is on the chain of),
\* and for the context StartTrace returned it reports a trace with the ID of
\* the trace StartTrace returned.
C1_TraceFromContext ==
    /\ ~TraceFromContext(ctxs, Background).ok
    /\ \A c \in UserCtxs :
          (\A k \in StartTraceCalls : ~Derived(ctxs, c, calls[k].ctxOut))
              => ~TraceFromContext(ctxs, c).ok
    /\ \A k \in StartTraceCalls :
          LET r == TraceFromContext(ctxs, calls[k].ctxOut)
          IN  /\ r.ok
              /\ traceWrapperID(otelSpans, traces[r.v]) = RetTraceID(k)

\* a trace started in a context that already carried a trace, and a context
\* with a span but no trace
C1_Witness ==
    /\ \E k \in StartTraceCalls : TraceFromContext(ctxs, calls[k].ctxIn).ok
    /\ \E c \in UserCtxs \ {Background} : ~TraceFromContext(ctxs, c).ok

\* C2: SpanFromContext reports no span for the context StartTrace returned as
\* long as no span was started from it, and for the context StartSpan
\* returned it reports a span with the ID of the span StartSpan returned.
C2_SpanFromContext ==
    /\ \A k \in StartTraceCalls :
          (\A j \in StartSpanCalls : ~Derived(ctxs, calls[j].ctxIn, calls[k].ctxOut))
              => ~SpanFromContext(ctxs, calls[k].ctxOut).ok
    /\ \A k \in StartSpanCalls :
          LET r == SpanFromContext(ctxs, calls[k].ctxOut)
          IN  /\ r.ok
              /\ spanWrapperID(otelSpans, spans[r.v]) = RetSpanID(k)

\* the span of call k belongs to the tree of the trace of call j: it was
\* started with a context derived from the context StartTrace returned,
\* through Provider.StartSpan, through StartSpan of that trace or of a trace
\* started inside it, or through StartSpan of a span of the tree
RECURSIVE SpanOfTrace(_, _)
SpanOfTrace(k, j) ==
    /\ Derived(ctxs, calls[k].ctxIn, calls[j].ctxOut)
    /\ CASE calls[k].op = "Provider.StartSpan" -> TRUE
         [] calls[k].op = "trace.StartSpan" ->
               \E i \in StartTraceCalls :
                  /\ calls[i].ret = calls[k].recv
                  /\ (i = j \/ Derived(ctxs, calls[i].ctxIn, calls[j].ctxOut))
         [] calls[k].op = "span.StartSpan" ->
               \E i \in StartSpanCalls :
                  /\ calls[i].ret = calls[k].recv
                  /\ SpanOfTrace(i, j)
         [] OTHER -> FALSE

C4_ParentSpanID ==
    \A k \in StartSpanCalls :
        LET child == spans[calls[k].ret]
            r == SpanFromContext(ctxs, calls[k].ctxIn)
        IN  /\ calls[k].op = "span.StartSpan"
                 => spanWrapperParentSpanID(child) = spanWrapperID(otelSpans, spans[calls[k].recv])
            /\ (calls[k].op = "Provider.StartSpan" /\ r.ok)
                 => spanWrapperParentSpanID(child) = spanWrapperID(otelSpans, spans[r.v])

\* span.StartSpan called with a context whose current span is not the
\* receiver, and Provider.StartSpan called with a context that carries a span
C4_Witness ==
    /\ \E k \in StartSpanCalls :
          /\ calls[k].op = "span.StartSpan"
          /\ SpanFromContext(ctxs, calls[k].ctxIn).v # calls[k].recv
    /\ \E k \in ProviderSpanCalls : SpanFromContext(ctxs, calls[k].ctxIn).ok

\* C5: StartTrace starts a new trace with its own root: whatever the context
\* passed in, the returned trace's ID() differs from the ID() of every trace
\* started before it.
C5_NewTraceID ==
    \A j, k \in StartTraceCalls : j < k => RetTraceID(k) # RetTraceID(j)

\* C6: context-value stacking. A call never changes what a context reports;
\* the context a StartSpan returned reports the new span and the trace of the
\* context passed in; two spans started by Provider.StartSpan from the same
\* context have the same parent span ID.
C6_Step ==
    /\ \A c \in UserCtxs :
          /\ TraceFromContext(ctxs', c) = TraceFromContext(ctxs, c)
          /\ SpanFromContext(ctxs', c) = SpanFromContext(ctxs, c)
          /\ TraceFromContext(ctxs, c).ok =>
                traceWrapperID(otelSpans', traces'[TraceFromContext(ctxs, c).v])
                    = traceWrapperID(otelSpans, traces[TraceFromContext(ctxs, c).v])
          /\ SpanFromContext(ctxs, c).ok =>
                spanWrapperID(otelSpans', spans'[SpanFromContext(ctxs, c).v])
                    = spanWrapperID(otelSpans, spans[SpanFromContext(ctxs, c).v])
    /\ Len(calls') = Len(calls) + 1 =>
          LET new == calls'[Len(calls')]
          IN  new.op # "StartTrace" =>
                /\ SpanFromContext(ctxs', new.ctxOut) = [ok |-> TRUE, v |-> new.ret]
                /\ TraceFromContext(ctxs', new.ctxOut) = TraceFromContext(ctxs, new.ctxIn)
                /\ \A k \in ProviderSpanCalls :
                      (new.op = "Provider.StartSpan" /\ calls[k].ctxIn = new.ctxIn)
                          => spanWrapperParentSpanID(spans'[new.ret])
                                = spanWrapperParentSpanID(spans[calls[k].ret])

C6_Stacking == [][C6_Step]_vars

\* two spans started by Provider.StartSpan from one context that carries a
\* trace and a span
C6_Witness ==
    \E j, k \in ProviderSpanCalls :
        /\ j # k
        /\ calls[j].ctxIn = calls[k].ctxIn
        /\ SpanFromContext(ctxs, calls[k].ctxIn).ok
        /\ TraceFromContext(ctxs, calls[k].ctxIn).ok

(***************************************************************************)
(* Evaluation: evals.Evaluator and Provider.Evaluate                       *)
(*                                                                         *)
(* A metric is what its Name() and Evaluate(input) return: Evaluate fails  *)
(* with an error message, or succeeds with a MetricScore. Metadata of a    *)
(* score is nil, a map[string]any or a value of another type.              *)
(***************************************************************************)

\* metrics per Evaluate call
MaxMetrics == 2
\* options per NewEvaluatorWithOptions call
MaxEvalOpts == 2

NilErr == [isNil |-> TRUE, msg |-> ""]
Err(msg) == [isNil |-> FALSE, msg |-> msg]

MetricScore(name, score, error, metadata) ==
    [Name |-> name, Score |-> score, Error |-> error, Metadata |-> metadata]

\* the zero value MetricScore{}
ZeroScore == MetricScore("", 0, "", "nil")

Metric(name, err, score) == [name |-> name, err |-> err, score |-> score]

Metrics ==
    { Metric("m1", NilErr, MetricScore("m1", 1, "", "nil")),
      Metric("m2", NilErr, MetricScore("renamed", 0, "", "map")),
      Metric("m3", NilErr, MetricScore("m3", 1, "soft failure", "nil")),
      Metric("m4", NilErr, MetricScore("m4", 1, "", "other")),
      Metric("m5", Err("boom"), MetricScore("junk", 1, "", "nil")),
      Metric("m6", Err(""), ZeroScore) }

SpanIDs == {"", "span-123"}

\* what api.Client.AnnotateSpans returns
ApiOutcomes == {NilErr, Err("annotate failed")}

Clients == {"nil", "client"}

SeqsUpTo(S, n) == UNION {[1..k -> S] : k \in 0..n}

\* NewEvaluator(client)
newEvaluatorDefault == TRUE
NewEvaluator(client) ==
    /\ ~evaluator.made
    /\ evaluator' = [made |-> TRUE, client |-> client,
                     recordResults |-> newEvaluatorDefault]
    /\ UNCHANGED <<evalCall, traceVars, configVars, moreVars>>

\* opt(e) for each option, in order; every option is WithRecordResults(b)
RECURSIVE applyEvaluatorOptions(_, _, _)
applyEvaluatorOptions(e, opts, i) ==
    IF i > Len(opts) THEN e
    ELSE applyEvaluatorOptions([e EXCEPT !.recordResults = opts[i]], opts, i + 1)

\* NewEvaluatorWithOptions(client, opts...)
NewEvaluatorWithOptions(client, opts) ==
    /\ ~evaluator.made
    /\ evaluator' = applyEvaluatorOptions(
                        [made |-> TRUE, client |-> client,
                         recordResults |-> newEvaluatorDefault], opts, 1)
    /\ UNCHANGED <<evalCall, traceVars, configVars, moreVars>>

\* the score the loop of Evaluator.Evaluate appends for one metric
evaluatorScore(m) ==
    IF ~m.err.isNil THEN MetricScore(m.name, 0, m.err.msg, "nil") ELSE m.score

\* the loop of Evaluator.Evaluate: the scores, and the metrics that ran
RECURSIVE evaluatorLoop(_, _, _)
evaluatorLoop(ms, i, acc) ==
    IF i > Len(ms) THEN acc
    ELSE evaluatorLoop(ms, i + 1,
             [scores |-> Append(acc.scores, evaluatorScore(ms[i])),
              ran    |-> Append(acc.ran, i)])

\* the score the loop of Provider.Evaluate appends for one metric
providerScore(m) ==
    IF ~m.err.isNil THEN MetricScore(m.name, 0, m.err.msg, "nil") ELSE m.score

\* the loop of Provider.Evaluate
RECURSIVE providerLoop(_, _, _)
providerLoop(ms, i, acc) ==
    IF i > Len(ms) THEN acc
    ELSE providerLoop(ms, i + 1,
             [scores |-> Append(acc.scores, providerScore(ms[i])),
              ran    |-> Append(acc.ran, i)])

\* whether recordScoresToPhoenix skips a score
skipScore(score) == score.Error # ""

SpanAnnotationData(spanID, score) ==
    [SpanID |-> spanID, Name |-> score.Name, Score |-> score.Score]

\* the loop of recordScoresToPhoenix. The label lookup asserts the type of a
\* non-nil Metadata without the ok form: it panics unless it is a map.
RECURSIVE buildAnnotations(_, _, _, _)
buildAnnotations(spanID, scores, i, acc) ==
    IF i > Len(scores) THEN [panicked |-> FALSE, annotations |-> acc]
    ELSE IF skipScore(scores[i]) THEN buildAnnotations(spanID, scores, i + 1, acc)
    ELSE IF scores[i].Metadata = "other" THEN [panicked |-> TRUE, annotations |-> acc]
    ELSE buildAnnotations(spanID, scores, i + 1,
                          Append(acc, SpanAnnotationData(spanID, scores[i])))

\* Evaluator.recordScoresToPhoenix: e.client.API() dereferences the client
recordScoresToPhoenix(e, spanID, scores, api) ==
    LET b == buildAnnotations(spanID, scores, 1, <<>>)
    IN  IF b.panicked THEN [panicked |-> TRUE, err |-> NilErr, requests |-> <<>>]
        ELSE IF Len(b.annotations) = 0
             THEN [panicked |-> FALSE, err |-> NilErr, requests |-> <<>>]
        ELSE IF e.client = "nil"
             THEN [panicked |-> TRUE, err |-> NilErr, requests |-> <<>>]
        ELSE [panicked |-> FALSE, err |-> api,
              requests |-> <<[Data |-> b.annotations]>>]

\* the condition under which Evaluate calls recordScoresToPhoenix
shouldRecord(e, spanID) == e.recordResults /\ spanID # ""

\* result.Metadata after the recording step
recordMetadata(err) ==
    IF ~err.isNil THEN {<<"record_error", err.msg>>} ELSE {}

EvalOutcome(op, spanID, ms, api, returned, scores, ran, metadata, requests) ==
    [op |-> op, spanID |-> spanID, metrics |-> ms, api |-> api,
     returned |-> returned, err |-> NilErr, scores |-> scores, ran |-> ran,
     metadata |-> metadata, requests |-> requests]

\* Evaluator.Evaluate(ctx, input, metrics...). The Evaluator keeps no state
\* between calls, so one call per behaviour is explored.
Evaluate(spanID, ms, api) ==
    /\ evaluator.made
    /\ evalCall = NoCall
    /\ LET run == evaluatorLoop(ms, 1, [scores |-> <<>>, ran |-> <<>>])
           rec == recordScoresToPhoenix(evaluator, spanID, run.scores, api)
       IN  evalCall' =
             IF ~shouldRecord(evaluator, spanID)
             THEN EvalOutcome("Evaluate", spanID, ms, api, TRUE,
                              run.scores, run.ran, {}, <<>>)
             ELSE IF rec.panicked
             THEN EvalOutcome("Evaluate", spanID, ms, api, FALSE,
                              <<>>, run.ran, {}, rec.requests)
             ELSE EvalOutcome("Evaluate", spanID, ms, api, TRUE,
                              run.scores, run.ran, recordMetadata(rec.err),
                              rec.requests)
    /\ UNCHANGED <<evaluator, traceVars, configVars, moreVars>>

\* Provider.Evaluate(ctx, input, metrics...)
ProviderEvaluate(spanID, ms) ==
    /\ evalCall = NoCall
    /\ LET run == providerLoop(ms, 1, [scores |-> <<>>, ran |-> <<>>])
       IN  evalCall' = EvalOutcome("Provider.Evaluate", spanID, ms, NilErr, TRUE,
                                   run.scores, run.ran, {}, <<>>)
    /\ UNCHANGED <<evaluator, traceVars, configVars, moreVars>>

EvalInit == TraceInit /\ EvalIdle /\ ConfigIdle /\ MoreIdle

EvalNext ==
    \/ \E c \in Clients : NewEvaluator(c)
    \/ \E c \in Clients : \E opts \in SeqsUpTo(BOOLEAN, MaxEvalOpts) :
          NewEvaluatorWithOptions(c, opts)
    \/ \E sp \in SpanIDs : \E ms \in SeqsUpTo(Metrics, MaxMetrics) :
          \E api \in ApiOutcomes : Evaluate(sp, ms, api)
    \/ \E sp \in SpanIDs : \E ms \in SeqsUpTo(Metrics, MaxMetrics) :
          ProviderEvaluate(sp, ms)

EvalSpec == EvalInit /\ [][EvalNext]_vars

(***************************************************************************)
(* Evaluation: properties                                                  *)
(***************************************************************************)

EvaluateCalled == evalCall.op \in {"Evaluate", "Provider.Evaluate"}

\* score i of the result is what the claim says for metric i
ExpectedScore(m) ==
    IF m.err.isNil THEN m.score
    ELSE [Name |-> m.name, Score |-> 0, Error |-> m.err.msg, Metadata |-> "nil"]

ScoresComplete ==
    /\ Len(evalCall.scores) = Len(evalCall.metrics)
    /\ \A i \in 1..Len(evalCall.metrics) :
          evalCall.scores[i] = ExpectedScore(evalCall.metrics[i])

\* C7: Evaluate (evals.Evaluator and Provider) returns a nil error and a
\* result with exactly one score per metric, in the order of the metrics:
\* what metric i returned when it succeeded, otherwise a score with the
\* metric's Name() and the error's message; every metric runs, whatever the
\* metrics before it did.
C7_Evaluate ==
    EvaluateCalled =>
        /\ evalCall.returned
        /\ evalCall.err = NilErr
        /\ ScoresComplete
        /\ evalCall.ran = [i \in 1..Len(evalCall.metrics) |-> i]

\* the scores recordScoresToPhoenix may send: those without an error
RECURSIVE ScoresWithoutError(_)
ScoresWithoutError(scores) ==
    IF scores = <<>> THEN <<>>
    ELSE (IF scores[1].Error = "" THEN <<scores[1]>> ELSE <<>>)
             \o ScoresWithoutError(Tail(scores))

ExpectedScores == [i \in 1..Len(evalCall.metrics) |-> ExpectedScore(evalCall.metrics[i])]

\* the one annotation request the claim expects of a recording call
ExpectedRequest ==
    LET ok == ScoresWithoutError(ExpectedScores)
    IN  [Data |-> [i \in 1..Len(ok) |->
                     [SpanID |-> evalCall.spanID, Name |-> ok[i].Name,
                      Score |-> ok[i].Score]]]

\* C8: Evaluator.Evaluate sends an annotation request iff recording is
\* enabled, input.SpanID is non-empty and at least one score has no error;
\* the request holds one span annotation per score without error, in score
\* order, with input.SpanID and the score's name and value.
C8_Recording ==
    evalCall.op = "Evaluate" =>
        IF /\ evaluator.recordResults
           /\ evalCall.spanID # ""
           /\ ScoresWithoutError(ExpectedScores) # <<>>
        THEN evalCall.requests = <<ExpectedRequest>>
        ELSE evalCall.requests = <<>>

\* recording is attempted: Evaluate reaches the call of AnnotateSpans
RecordingAttempted ==
    /\ evaluator.recordResults
    /\ evalCall.spanID # ""
    /\ ScoresWithoutError(ExpectedScores) # <<>>

RecordingSucceeded ==
    /\ evalCall.requests # <<>>
    /\ evalCall.api.isNil

\* C9: recording never fails an evaluation. When recording is attempted and
\* does not succeed, Evaluate still returns the complete scores with a nil
\* error and the failure message under Metadata["record_error"]; otherwise
\* the result has no record_error entry.
C9_RecordingNeverFails ==
    evalCall.op = "Evaluate" =>
        /\ evalCall.returned
        /\ evalCall.err = NilErr
        /\ ScoresComplete
        /\ IF RecordingAttempted /\ ~RecordingSucceeded
           THEN evalCall.metadata = {<<"record_error", evalCall.api.msg>>}
           ELSE evalCall.metadata = {}

\* what does hold of the code: whenever Evaluate returns, C7, C8 and C9 hold
EvaluateWhenReturned ==
    evalCall.op = "Evaluate" /\ evalCall.returned =>
        /\ C7_Evaluate
        /\ C8_Recording
        /\ C9_RecordingNeverFails

\* Evaluate panics only in recordScoresToPhoenix: on a nil client, or on a
\* score whose Metadata is not a map
EvaluatePanics ==
    evalCall.op = "Evaluate" /\ ~evalCall.returned =>
        /\ evaluator.recordResults /\ evalCall.spanID # ""
        /\ \/ evaluator.client = "nil"
           \/ \E i \in 1..Len(evalCall.metrics) :
                 ExpectedScore(evalCall.metrics[i]).Metadata = "other"

(***************************************************************************)
(* REST client configuration: Config, the options and NewClient            *)
(*                                                                         *)
(* A string is a sequence of tokens, "" is <<>> and "/" is a token of its  *)
(* own; an unset environment variable reads as "".                         *)
(***************************************************************************)

\* options per NewClient call
MaxOpts == 2

DefaultURL == <<"http://localhost:6006">>
DefaultProjectName == <<"default">>
CloudURL == <<"https://app.phoenix.arize.com">>

NilConfig ==
    [isNil |-> TRUE, URL |-> <<>>, SpaceID |-> <<>>, APIKey |-> <<>>,
     ProjectName |-> <<>>]

Config(url, spaceID, apiKey, projectName) ==
    [isNil |-> FALSE, URL |-> url, SpaceID |-> spaceID, APIKey |-> apiKey,
     ProjectName |-> projectName]

\* NewConfig()
NewConfig == Config(DefaultURL, <<>>, <<>>, DefaultProjectName)

\* Config.loadFromEnv()
loadFromEnv(c, e) ==
    LET c1 == IF e.PHOENIX_URL # <<>> THEN [c EXCEPT !.URL = e.PHOENIX_URL] ELSE c
        c2 == IF e.PHOENIX_SPACE_ID # <<>>
              THEN [c1 EXCEPT !.SpaceID = e.PHOENIX_SPACE_ID,
                              !.URL = IF c1.URL = DefaultURL THEN CloudURL ELSE c1.URL]
              ELSE c1
        c3 == IF e.PHOENIX_API_KEY # <<>>
              THEN [c2 EXCEPT !.APIKey = e.PHOENIX_API_KEY] ELSE c2
    IN  IF e.PHOENIX_PROJECT_NAME # <<>>
        THEN [c3 EXCEPT !.ProjectName = e.PHOENIX_PROJECT_NAME] ELSE c3

\* LoadConfig()
LoadConfig(e) == loadFromEnv(NewConfig, e)

\* defaultClientOptions(): the config field of clientOptions
defaultClientOptions(e) == [panicked |-> FALSE, config |-> LoadConfig(e)]

\* an Option: a field option carries a string, WithConfig a *Config
Option(kind, val, config) == [kind |-> kind, val |-> val, config |-> config]

\* mutant: a field option with an empty value is ignored
applyOptionSkipEmpty(o, opt) ==
    IF o.panicked THEN o
    ELSE IF opt.kind = "WithConfig" THEN [o EXCEPT !.config = opt.config]
    ELSE IF o.config.isNil THEN [o EXCEPT !.panicked = TRUE]
    ELSE IF opt.val = <<>> THEN o
    ELSE CASE opt.kind = "WithURL" -> [o EXCEPT !.config.URL = opt.val]
           [] opt.kind = "WithAPIKey" -> [o EXCEPT !.config.APIKey = opt.val]
           [] opt.kind = "WithProjectName" -> [o EXCEPT !.config.ProjectName = opt.val]
           [] opt.kind = "WithSpaceID" -> [o EXCEPT !.config.SpaceID = opt.val]

\* opt(options) for one Option; a field option writes through options.config
\* and panics on a nil config
applyOption(o, opt) ==
    IF o.panicked THEN o
    ELSE IF opt.kind = "WithConfig" THEN [o EXCEPT !.config = opt.config]
    ELSE IF o.config.isNil THEN [o EXCEPT !.panicked = TRUE]
    ELSE CASE opt.kind = "WithURL" -> [o EXCEPT !.config.URL = opt.val]
           [] opt.kind = "WithAPIKey" -> [o EXCEPT !.config.APIKey = opt.val]
           [] opt.kind = "WithProjectName" -> [o EXCEPT !.config.ProjectName = opt.val]
           [] opt.kind = "WithSpaceID" -> [o EXCEPT !.config.SpaceID = opt.val]

\* the option loop of NewClient
RECURSIVE applyOptions(_, _, _)
applyOptions(o, opts, i) ==
    IF i > Len(opts) THEN o
    ELSE applyOptions(applyOption(o, opts[i]), opts, i + 1)

\* strings.TrimSuffix(s, "/")
TrimSuffixSlash(str) ==
    IF str # <<>> /\ str[Len(str)] = "/" THEN SubSeq(str, 1, Len(str) - 1) ELSE str

\* mutant: the URL is not normalised before the space ID is appended
ValidateNoTrim(c) ==
    IF c.URL = <<>> THEN [err |-> "ErrMissingURL", config |-> c]
    ELSE [err |-> "nil",
          config |-> [c EXCEPT !.URL = IF c.SpaceID # <<>>
                                       THEN c.URL \o <<"/", "s", "/">> \o c.SpaceID
                                       ELSE c.URL]]

\* Config.Validate(): the error and the config it leaves
Validate(c) ==
    IF c.URL = <<>> THEN [err |-> "ErrMissingURL", config |-> c]
    ELSE LET u == TrimSuffixSlash(c.URL)
         IN  [err |-> "nil",
              config |-> [c EXCEPT !.URL = IF c.SpaceID # <<>>
                                           THEN u \o <<"/", "s", "/">> \o c.SpaceID
                                           ELSE u]]

\* Config.BaseURL()
BaseURL(c) == c.URL

ClientOutcome(op, opts, panicked, merged, err, config) ==
    [op |-> op, opts |-> opts, panicked |-> panicked, merged |-> merged,
     err |-> err, config |-> config]

\* NewClient(opts...): merged is options.config when the option loop is
\* done; config is the client's Config (NilConfig when no client is returned).
\* Validate dereferences the config.
NewClient(opts) ==
    /\ clientCall = NoCall
    /\ LET o == applyOptions(defaultClientOptions(env), opts, 1)
           v == Validate(o.config)
       IN  clientCall' =
             IF o.panicked \/ o.config.isNil
             THEN ClientOutcome("NewClient", opts, TRUE, o.config, "nil", NilConfig)
             ELSE IF v.err # "nil"
             THEN ClientOutcome("NewClient", opts, FALSE, o.config, v.err, NilConfig)
             ELSE ClientOutcome("NewClient", opts, FALSE, o.config, "nil", v.config)
    /\ UNCHANGED <<env, traceVars, evalVars, moreVars>>

\* LoadConfig() called by the application
LoadConfigCall ==
    /\ clientCall = NoCall
    /\ clientCall' = ClientOutcome("LoadConfig", <<>>, FALSE, LoadConfig(env),
                                   "nil", LoadConfig(env))
    /\ UNCHANGED <<env, traceVars, evalVars, moreVars>>

EnvURLs == {<<>>, DefaultURL, <<"https://env.example">>, <<"https://env.example", "/">>}
EnvAPIKeys == {<<>>, <<"env-key">>}
EnvProjectNames == {<<>>, <<"env-project">>}
EnvSpaceIDs == {<<>>, <<"env-space">>}

Envs ==
    [PHOENIX_URL : EnvURLs, PHOENIX_API_KEY : EnvAPIKeys,
     PHOENIX_PROJECT_NAME : EnvProjectNames, PHOENIX_SPACE_ID : EnvSpaceIDs]

UserConfigs ==
    { NilConfig,
      Config(<<"https://cfg.example">>, <<"cfg-space">>, <<>>, <<"cfg-project">>),
      Config(<<>>, <<>>, <<"cfg-key">>, <<>>) }

Options ==
    {Option("WithURL", u, NilConfig) : u \in {<<>>, DefaultURL, <<"https://opt.example", "/">>}}
    \cup {Option("WithAPIKey", k, NilConfig) : k \in {<<>>, <<"opt-key">>}}
    \cup {Option("WithProjectName", n, NilConfig) : n \in {<<>>, <<"opt-project">>}}
    \cup {Option("WithSpaceID", i, NilConfig) : i \in {<<>>, <<"opt-space">>}}
    \cup {Option("WithConfig", <<>>, c) : c \in UserConfigs}

ConfigInit ==
    /\ TraceInit
    /\ EvalIdle
    /\ env \in Envs
    /\ clientCall = NoCall
    /\ MoreIdle

ConfigNext ==
    \/ \E opts \in SeqsUpTo(Options, MaxOpts) : NewClient(opts)
    \/ LoadConfigCall

ConfigSpec == ConfigInit /\ [][ConfigNext]_vars

(***************************************************************************)
(* REST client configuration: properties                                   *)
(***************************************************************************)

Fields == {"URL", "APIKey", "ProjectName", "SpaceID"}

FieldOption(f) ==
    CASE f = "URL" -> "WithURL"
      [] f = "APIKey" -> "WithAPIKey"
      [] f = "ProjectName" -> "WithProjectName"
      [] f = "SpaceID" -> "WithSpaceID"

FieldOf(c, f) ==
    CASE f = "URL" -> c.URL
      [] f = "APIKey" -> c.APIKey
      [] f = "ProjectName" -> c.ProjectName
      [] f = "SpaceID" -> c.SpaceID

EnvOf(e, f) ==
    CASE f = "URL" -> e.PHOENIX_URL
      [] f = "APIKey" -> e.PHOENIX_API_KEY
      [] f = "ProjectName" -> e.PHOENIX_PROJECT_NAME
      [] f = "SpaceID" -> e.PHOENIX_SPACE_ID

DefaultOf(f) ==
    CASE f = "URL" -> <<"http://localhost:6006">>
      [] f = "APIKey" -> <<>>
      [] f = "ProjectName" -> <<"default">>
      [] f = "SpaceID" -> <<>>

\* an explicit option for field f: its own option, or WithConfig, which sets
\* all four fields
SetsField(opt, f) == opt.kind = FieldOption(f) \/ opt.kind = "WithConfig"

OptionValue(opt, f) ==
    IF opt.kind = "WithConfig" THEN FieldOf(opt.config, f) ELSE opt.val

\* the positions of the explicit options for f, and the value the last sets
ExplicitFor(opts, f) == {i \in 1..Len(opts) : SetsField(opts[i], f)}

LastExplicit(opts, f) ==
    LET i == CHOOSE i \in ExplicitFor(opts, f) : \A j \in ExplicitFor(opts, f) : j <= i
    IN  OptionValue(opts[i], f)

\* a NewClient call whose option loop ran through
Merged == clientCall.op = "NewClient" /\ ~clientCall.panicked

EnvOrDefault(e, f) ==
    IF f = "URL" /\ e.PHOENIX_SPACE_ID # <<>>
       /\ e.PHOENIX_URL \in {<<>>, <<"http://localhost:6006">>}
    THEN <<"https://app.phoenix.arize.com">>
    ELSE IF EnvOf(e, f) # <<>> THEN EnvOf(e, f)
    ELSE DefaultOf(f)

DefaultEndpoint == <<"http://", "localhost:6006">>
OtelDefaultProjectName == <<"default">>
DefaultHTTPPath == <<"/", "v1", "/", "traces">>
CloudEndpoint == <<"https://", "app.phoenix.arize.com">>

OtelConfig(endpoint, spaceID, projectName, apiKey) ==
    [Endpoint |-> endpoint, SpaceID |-> spaceID, ProjectName |-> projectName,
     APIKey |-> apiKey]

\* getEnvCollectorEndpoint()
getEnvCollectorEndpoint(e) ==
    IF e.PHOENIX_COLLECTOR_ENDPOINT # <<>> THEN e.PHOENIX_COLLECTOR_ENDPOINT
    ELSE e.OTEL_EXPORTER_OTLP_ENDPOINT

\* DefaultConfig()
DefaultConfig(e) ==
    LET c0 == OtelConfig(DefaultEndpoint, <<>>, OtelDefaultProjectName, <<>>)
        c1 == IF getEnvCollectorEndpoint(e) # <<>>
              THEN [c0 EXCEPT !.Endpoint = getEnvCollectorEndpoint(e)] ELSE c0
        c2 == IF e.PHOENIX_SPACE_ID # <<>>
              THEN [c1 EXCEPT !.SpaceID = e.PHOENIX_SPACE_ID,
                              !.Endpoint = IF c1.Endpoint = DefaultEndpoint
                                           THEN CloudEndpoint ELSE c1.Endpoint]
              ELSE c1
        c3 == IF e.PHOENIX_PROJECT_NAME # <<>>
              THEN [c2 EXCEPT !.ProjectName = e.PHOENIX_PROJECT_NAME] ELSE c2
    IN  IF e.PHOENIX_API_KEY # <<>>
        THEN [c3 EXCEPT !.APIKey = e.PHOENIX_API_KEY] ELSE c3

\* the loop of EffectiveEndpoint: every trailing slash is removed
RECURSIVE TrimSlashes(_)
TrimSlashes(str) ==
    IF str # <<>> /\ str[Len(str)] = "/"
    THEN TrimSlashes(SubSeq(str, 1, Len(str) - 1)) ELSE str

\* Config.EffectiveEndpoint()
EffectiveEndpoint(c) ==
    IF c.SpaceID # <<>>
    THEN TrimSlashes(c.Endpoint) \o <<"/", "s", "/">> \o c.SpaceID
    ELSE c.Endpoint

\* strings.HasPrefix(s, "http://") || strings.HasPrefix(s, "https://")
HasScheme(str) == str # <<>> /\ str[1] \in {"http://", "https://"}

\* an otel Option: WithEndpoint, WithSpaceID, WithProjectName, WithAPIKey
OtelOption(kind, val) == [kind |-> kind, val |-> val]

\* opt(cfg) for one Option
applyOtelOption(c, opt) ==
    CASE opt.kind = "WithEndpoint" -> [c EXCEPT !.Endpoint = opt.val]
      [] opt.kind = "WithSpaceID" -> [c EXCEPT !.SpaceID = opt.val]
      [] opt.kind = "WithProjectName" -> [c EXCEPT !.ProjectName = opt.val]
      [] opt.kind = "WithAPIKey" -> [c EXCEPT !.APIKey = opt.val]

\* the option loop of Register
RECURSIVE applyOtelOptions(_, _, _)
applyOtelOptions(c, opts, i) ==
    IF i > Len(opts) THEN c
    ELSE applyOtelOptions(applyOtelOption(c, opts[i]), opts, i + 1)

\* createExporter(cfg): the URL the exporter posts to, as scheme and host
\* (target), base path and URL path, and the headers it sends. The port
\* defaulting (443 / 6006) is not followed.
createExporter(c) ==
    LET eff == EffectiveEndpoint(c)
        endpoint == IF HasScheme(eff) THEN eff ELSE <<"http://">> \o eff
        host == SubSeq(endpoint, 1, IF Len(endpoint) >= 2 THEN 2 ELSE Len(endpoint))
        rest == SubSeq(endpoint, 3, Len(endpoint))
        basePath == IF rest = <<"/">> THEN <<>> ELSE rest
    IN  [target |-> host \o basePath,
         path |-> basePath \o DefaultHTTPPath,
         headers |->
            (IF c.APIKey # <<>>
             THEN {<<"Authorization", <<"Bearer ">> \o c.APIKey>>} ELSE {})
            \cup (IF c.ProjectName # <<>>
                  THEN {<<"x-phoenix-project-name", c.ProjectName>>} ELSE {})]

\* createResource(cfg): the openinference.project.name attribute
createResource(c) == [project |-> c.ProjectName]

OtelOutcome(op, opts, config, exporter, resource) ==
    [op |-> op, opts |-> opts, config |-> config, exporter |-> exporter,
     resource |-> resource]

\* DefaultConfig() called by the application
DefaultConfigCall ==
    /\ clientCall = NoCall
    /\ otelCall = NoCall
    /\ otelCall' = OtelOutcome("DefaultConfig", <<>>, DefaultConfig(env),
                               createExporter(DefaultConfig(env)),
                               createResource(DefaultConfig(env)))
    /\ UNCHANGED <<traceVars, evalVars, configVars, transportVars, projectVars,
                   kindVars, lifeVars>>

\* Register(opts...)
Register(opts) ==
    /\ clientCall = NoCall
    /\ otelCall = NoCall
    /\ LET cfg == applyOtelOptions(DefaultConfig(env), opts, 1)
       IN  otelCall' = OtelOutcome("Register", opts, cfg, createExporter(cfg),
                                   createResource(cfg))
    /\ UNCHANGED <<traceVars, evalVars, configVars, transportVars, projectVars,
                   kindVars, lifeVars>>

EnvCollectorEndpoints ==
    {<<>>, DefaultEndpoint, <<"https://", "collector.example", "/">>}
EnvOTELEndpoints == {<<>>, <<"http://", "otlp.example">>}

\* the environment both packages read
CloudEnvs ==
    [PHOENIX_URL : {<<>>, DefaultURL, <<"https://env.example">>},
     PHOENIX_API_KEY : EnvAPIKeys,
     PHOENIX_PROJECT_NAME : {<<>>},
     PHOENIX_SPACE_ID : EnvSpaceIDs,
     PHOENIX_COLLECTOR_ENDPOINT : EnvCollectorEndpoints,
     OTEL_EXPORTER_OTLP_ENDPOINT : EnvOTELEndpoints]

OtelOptions ==
    {OtelOption("WithEndpoint", u) :
        u \in {CloudEndpoint, <<"collector.example", "/">>}}
    \cup {OtelOption("WithSpaceID", i) : i \in {<<"your-space-id">>}}
    \cup {OtelOption("WithAPIKey", k) : k \in {<<"your-api-key">>}}
    \cup {OtelOption("WithProjectName", n) : n \in {<<"my-project">>}}

CloudOptions ==
    {Option("WithURL", CloudURL, NilConfig),
     Option("WithSpaceID", <<"your-space-id">>, NilConfig),
     Option("WithAPIKey", <<"your-api-key">>, NilConfig)}

CloudInit ==
    /\ TraceInit
    /\ EvalIdle
    /\ env \in CloudEnvs
    /\ clientCall = NoCall
    /\ MoreIdle

\* one configuration call of either package per behaviour
CloudNext ==
    \/ DefaultConfigCall
    \/ \E opts \in SeqsUpTo(OtelOptions, MaxOpts) : Register(opts)
    \/ otelCall = NoCall /\ LoadConfigCall
    \/ \E opts \in SeqsUpTo(CloudOptions, MaxOpts) : otelCall = NoCall /\ NewClient(opts)

CloudSpec == CloudInit /\ [][CloudNext]_vars

(***************************************************************************)
(* Phoenix Cloud defaults: properties                                      *)
(***************************************************************************)

\* C11: with PHOENIX_SPACE_ID set, LoadConfig's URL and DefaultConfig's
\* Endpoint are https://app.phoenix.arize.com when the environment gives no
\* URL / endpoint, and the value of PHOENIX_URL, respectively of
\* PHOENIX_COLLECTOR_ENDPOINT or OTEL_EXPORTER_OTLP_ENDPOINT, unchanged when
\* it gives one, whatever that value is.
C11_CloudDefault ==
    env.PHOENIX_SPACE_ID # <<>> =>
        /\ clientCall.op = "LoadConfig" =>
              clientCall.config.URL =
                  IF env.PHOENIX_URL = <<>>
                  THEN <<"https://app.phoenix.arize.com">>
                  ELSE env.PHOENIX_URL
        /\ otelCall.op = "DefaultConfig" =>
              otelCall.config.Endpoint =
                  IF env.PHOENIX_COLLECTOR_ENDPOINT # <<>>
                  THEN env.PHOENIX_COLLECTOR_ENDPOINT
                  ELSE IF env.OTEL_EXPORTER_OTLP_ENDPOINT # <<>>
                  THEN env.OTEL_EXPORTER_OTLP_ENDPOINT
                  ELSE <<"https://", "app.phoenix.arize.com">>

\* the part of C11 that holds: an endpoint / URL of the environment other
\* than http://localhost:6006 is kept, and none gives Phoenix Cloud
CloudDefaultUnlessLocalhost ==
    env.PHOENIX_SPACE_ID # <<>> =>
        /\ (clientCall.op = "LoadConfig"
            /\ env.PHOENIX_URL # <<"http://localhost:6006">>) =>
              clientCall.config.URL =
                  IF env.PHOENIX_URL = <<>>
                  THEN <<"https://app.phoenix.arize.com">>
                  ELSE env.PHOENIX_URL
        /\ (otelCall.op = "DefaultConfig"
            /\ getEnvCollectorEndpoint(env) # <<"http://", "localhost:6006">>) =>
              otelCall.config.Endpoint =
                  IF getEnvCollectorEndpoint(env) = <<>>
                  THEN <<"https://", "app.phoenix.arize.com">>
                  ELSE getEnvCollectorEndpoint(env)

\* the value the last option of a kind sets, <<>> when there is none
LastOtelOption(opts, kind) ==
    LET is == {i \in 1..Len(opts) : opts[i].kind = kind}
    IN  IF is = {} THEN <<>>
        ELSE opts[CHOOSE i \in is : \A j \in is : j <= i].val

\* no endpoint / URL and no space ID in the environment
NoCloudEnv ==
    /\ env.PHOENIX_URL = <<>>
    /\ env.PHOENIX_COLLECTOR_ENDPOINT = <<>>
    /\ env.OTEL_EXPORTER_OTLP_ENDPOINT = <<>>
    /\ env.PHOENIX_SPACE_ID = <<>>

\* C12: Register(WithSpaceID(id), WithAPIKey(k), ...) and
\* NewClient(WithSpaceID(id), WithAPIKey(k)), called with no endpoint / URL
\* option and no endpoint / URL or space-ID environment variable, target
\* https://app.phoenix.arize.com/s/{id}.
C12_Programmatic ==
    NoCloudEnv =>
        /\ (/\ otelCall.op = "Register"
            /\ LastOtelOption(otelCall.opts, "WithSpaceID") # <<>>
            /\ LastOtelOption(otelCall.opts, "WithAPIKey") # <<>>
            /\ \A i \in 1..Len(otelCall.opts) : otelCall.opts[i].kind # "WithEndpoint")
           => otelCall.exporter.target =
                 <<"https://", "app.phoenix.arize.com", "/", "s", "/">>
                 \o LastOtelOption(otelCall.opts, "WithSpaceID")
        /\ (/\ clientCall.op = "NewClient"
            /\ \E i \in 1..Len(clientCall.opts) :
                  clientCall.opts[i].kind = "WithSpaceID" /\ clientCall.opts[i].val # <<>>
            /\ \E i \in 1..Len(clientCall.opts) :
                  clientCall.opts[i].kind = "WithAPIKey" /\ clientCall.opts[i].val # <<>>
            /\ \A i \in 1..Len(clientCall.opts) :
                  clientCall.opts[i].kind \in {"WithSpaceID", "WithAPIKey"})
           => /\ clientCall.err = "nil"
              /\ BaseURL(clientCall.config) =
                    <<"https://app.phoenix.arize.com", "/", "s", "/">>
                    \o LastExplicit(clientCall.opts, "SpaceID")

(***************************************************************************)
(* REST client base URL: properties                                        *)
(***************************************************************************)

\* C13: after NewClient succeeds from a configuration with URL u and space
\* ID s, BaseURL() is u without its trailing slash, followed by "/s/" + s
\* when s is non-empty; when u is empty NewClient returns ErrMissingURL and
\* no client.
C13_BaseURL ==
    Merged =>
        LET u == clientCall.merged.URL
            s == clientCall.merged.SpaceID
            trimmed == IF u # <<>> /\ u[Len(u)] = "/"
                       THEN SubSeq(u, 1, Len(u) - 1) ELSE u
        IN  IF u = <<>>
            THEN clientCall.err = "ErrMissingURL" /\ clientCall.config = NilConfig
            ELSE /\ clientCall.err = "nil"
                 /\ ~clientCall.config.isNil
                 /\ BaseURL(clientCall.config) =
                       IF s # <<>> THEN trimmed \o <<"/", "s", "/">> \o s
                       ELSE trimmed

\* a client built from a URL with a trailing slash and a space ID
C13_Witness ==
    /\ Merged
    /\ clientCall.err = "nil"
    /\ clientCall.merged.URL # <<>>
    /\ clientCall.merged.URL[Len(clientCall.merged.URL)] = "/"
    /\ clientCall.merged.SpaceID # <<>>
    /\ BaseURL(clientCall.config) # clientCall.merged.URL

(***************************************************************************)
(* authHTTPClient: the transport wrapper of the REST client                *)
(*                                                                         *)
(* An http.Header maps a header name to the list of its values (an empty   *)
(* list: the header is absent); a value is a tuple of string pieces.       *)
(***************************************************************************)

\* number of requests sent through one client
MaxRequests == 2

\* const Version
Version == <<"0.1.0">>

HeaderNames ==
    {"Authorization", "X-Phoenix-SDK-Version", "X-Phoenix-SDK-Lang", "Accept"}

\* http.Header.Set(key, value): the values of key are replaced by value
HeaderSet(h, key, value) == [h EXCEPT ![key] = <<value>>]

\* &authHTTPClient{client: httpClient, apiKey: options.config.APIKey}
newAuthHTTPClient(apiKey) == [made |-> TRUE, apiKey |-> apiKey]

\* mutant: the Authorization header is set whatever the key is
authHTTPClientDoAlwaysAuth(c, header) ==
    LET h1 == HeaderSet(header, "Authorization", <<"Bearer ">> \o c.apiKey)
        h2 == HeaderSet(h1, "X-Phoenix-SDK-Version", Version)
    IN  HeaderSet(h2, "X-Phoenix-SDK-Lang", <<"go">>)

\* authHTTPClient.Do(req): the header of the request handed to c.client.Do
authHTTPClientDo(c, header) ==
    LET h1 == IF c.apiKey # <<>>
              THEN HeaderSet(header, "Authorization", <<"Bearer ">> \o c.apiKey)
              ELSE header
        h2 == HeaderSet(h1, "X-Phoenix-SDK-Version", Version)
    IN  HeaderSet(h2, "X-Phoenix-SDK-Lang", <<"go">>)

\* a request goes through the wrapper to the wrapped http.Client
Do(header) ==
    /\ authClient.made
    /\ Len(sentRequests) < MaxRequests
    /\ sentRequests' = Append(sentRequests,
                              [given |-> header,
                               sent |-> authHTTPClientDo(authClient, header)])
    /\ UNCHANGED <<authClient, traceVars, evalVars, configVars, otelVars,
                   projectVars, kindVars, lifeVars>>

\* the API keys a client is built with
ClientAPIKeys == {<<>>, <<"key-1">>, <<"key-2">>}

\* the headers of the requests the generated API client builds
RequestHeaders ==
    { [n \in HeaderNames |->
          CASE n = "Authorization" -> a
            [] n = "X-Phoenix-SDK-Version" -> v
            [] n = "X-Phoenix-SDK-Lang" -> l
            [] n = "Accept" -> << <<"application/json">> >>] :
      a \in {<<>>, << <<"Basic abc">> >>, << <<"Bearer ", "old">>, <<"Bearer ", "older">> >>},
      v \in {<<>>, << <<"9.9.9">> >>},
      l \in {<<>>, << <<"python">> >>} }

TransportInit ==
    /\ TraceInit
    /\ EvalIdle
    /\ ConfigIdle
    /\ OtelIdle
    /\ ProjectIdle
    /\ KindIdle
    /\ LifeIdle
    /\ \E k \in ClientAPIKeys : authClient = newAuthHTTPClient(k)
    /\ sentRequests = <<>>

TransportNext == \E h \in RequestHeaders : Do(h)

TransportSpec == TransportInit /\ [][TransportNext]_vars

(***************************************************************************)
(* Transport wrapper: properties                                           *)
(***************************************************************************)

\* C14: every request sent through the wrapper carries X-Phoenix-SDK-Version
\* equal to Version and X-Phoenix-SDK-Lang equal to "go"; it carries
\* Authorization "Bearer <key>" whenever the configured key is non-empty,
\* and with an empty key its Authorization header is left as it was.
C14_Headers ==
    \A i \in 1..Len(sentRequests) :
        LET r == sentRequests[i]
        IN  /\ r.sent["X-Phoenix-SDK-Version"] = << <<"0.1.0">> >>
            /\ r.sent["X-Phoenix-SDK-Lang"] = << <<"go">> >>
            /\ authClient.apiKey # <<>> =>
                  r.sent["Authorization"] = << <<"Bearer ">> \o authClient.apiKey >>
            /\ authClient.apiKey = <<>> =>
                  r.sent["Authorization"] = r.given["Authorization"]

\* a client without a key has sent a request that came with an Authorization
\* header and with SDK headers of another SDK
C14_Witness ==
    /\ authClient.made
    /\ authClient.apiKey = <<>>
    /\ \E i \in 1..Len(sentRequests) :
          /\ sentRequests[i].given["Authorization"] # <<>>
          /\ sentRequests[i].given["X-Phoenix-SDK-Lang"] # <<>>
          /\ sentRequests[i].sent # sentRequests[i].given

(***************************************************************************)
(* llmops Provider: the project of exported traces                         *)
(***************************************************************************)

\* number of SetProject calls and exported traces followed
MaxProjectOps == 3

\* the value of a header in the exporter's header map, <<>> when absent
HeaderOf(headers, name) ==
    IF \E pr \in headers : pr[1] = name
    THEN (CHOOSE pr \in headers : pr[1] = name)[2]
    ELSE <<>>

\* New(llmops.WithProjectName(projectName)): the otel options it maps the
\* project name to, the TracerProvider Register builds from them, and the
\* Provider. No endpoint, workspace or API key option is given.
newProvider(e, projectName) ==
    LET otelOpts == IF projectName # <<>>
                    THEN <<OtelOption("WithProjectName", projectName)>>
                    ELSE <<>>
        cfg == applyOtelOptions(DefaultConfig(e), otelOpts, 1)
    IN  [made |-> TRUE,
         projectName |-> projectName,
         tp |-> [config |-> cfg,
                 exporter |-> createExporter(cfg),
                 resource |-> createResource(cfg)]]

\* the project a span of the provider is exported with: the header the
\* exporter sends and the resource attribute of the TracerProvider
exportedProject(p) ==
    [header |-> HeaderOf(p.tp.exporter.headers, "x-phoenix-project-name"),
     resource |-> p.tp.resource.project]

\* Provider.SetProject(ctx, name)
SetProject(name) ==
    /\ provider.made
    /\ Len(projectLog) < MaxProjectOps
    /\ provider' = [provider EXCEPT !.projectName = name]
    /\ projectLog' = Append(projectLog, [op |-> "SetProject", name |-> name,
                                         err |-> "nil"])
    /\ UNCHANGED <<traceVars, evalVars, configVars, otelVars, transportVars,
                   kindVars, lifeVars>>

\* a trace is started with Provider.StartTrace, ended, and its span is
\* exported by the provider's TracerProvider
ExportTrace ==
    /\ provider.made
    /\ Len(projectLog) < MaxProjectOps
    /\ projectLog' = Append(projectLog,
                            [op |-> "export",
                             header |-> exportedProject(provider).header,
                             resource |-> exportedProject(provider).resource])
    /\ UNCHANGED <<provider, traceVars, evalVars, configVars, otelVars,
                   transportVars, kindVars, lifeVars>>

ProjectNames ==
    {<<"initial-project">>, <<"switched-project">>, <<"other-project">>}

ProjectEnvs ==
    [PHOENIX_URL : {<<>>}, PHOENIX_API_KEY : {<<>>},
     PHOENIX_PROJECT_NAME : EnvProjectNames, PHOENIX_SPACE_ID : {<<>>},
     PHOENIX_COLLECTOR_ENDPOINT : {<<>>}, OTEL_EXPORTER_OTLP_ENDPOINT : {<<>>}]

ProjectInit ==
    /\ TraceInit
    /\ EvalIdle
    /\ env \in ProjectEnvs
    /\ clientCall = NoCall
    /\ OtelIdle
    /\ TransportIdle
    /\ KindIdle
    /\ LifeIdle
    /\ \E n \in {<<>>, <<"initial-project">>} : provider = newProvider(env, n)
    /\ projectLog = <<>>

ProjectNext ==
    \/ \E n \in ProjectNames : SetProject(n)
    \/ ExportTrace

ProjectSpec == ProjectInit /\ [][ProjectNext]_vars

(***************************************************************************)
(* Project switching: properties                                           *)
(***************************************************************************)

\* C15: after SetProject(name) has returned nil, the spans of a trace
\* started afterwards are exported with project name `name`, in the
\* x-phoenix-project-name header and in the openinference.project.name
\* resource attribute.
C15_SetProject ==
    \A i \in 1..Len(projectLog) : \A j \in 1..Len(projectLog) :
        (/\ i < j
         /\ projectLog[i].op = "SetProject"
         /\ projectLog[i].err = "nil"
         /\ projectLog[j].op = "export"
         /\ \A k \in (i + 1)..(j - 1) : projectLog[k].op # "SetProject")
        => /\ projectLog[j].header = projectLog[i].name
           /\ projectLog[j].resource = projectLog[i].name

\* what the code does: every trace is exported with the project name the
\* provider was opened with, whatever SetProject calls came before
ExportedWithOpeningProject ==
    \A j \in 1..Len(projectLog) :
        projectLog[j].op = "export" =>
            /\ projectLog[j].header = provider.tp.config.ProjectName
            /\ projectLog[j].resource = provider.tp.config.ProjectName

\* SetProject always returns nil
SetProjectReturnsNil ==
    \A i \in 1..Len(projectLog) :
        projectLog[i].op = "SetProject" => projectLog[i].err = "nil"

(***************************************************************************)
(* evals: annotator kinds                                                  *)
(***************************************************************************)

\* number of parser calls followed
MaxParses == 2

\* parseSpanAnnotatorKind(source)
parseSpanAnnotatorKind(source) ==
    CASE source \in {"llm", "LLM"} -> "LLM"
      [] source \in {"code", "CODE"} -> "CODE"
      [] OTHER -> "HUMAN"

\* mutant: an unknown source gives CODE, as inferAnnotatorKind defaults
parseTraceAnnotatorKindDefaultCode(source) ==
    CASE source \in {"llm", "LLM"} -> "LLM"
      [] source \in {"human", "HUMAN"} -> "HUMAN"
      [] OTHER -> "CODE"

\* parseTraceAnnotatorKind(source)
parseTraceAnnotatorKind(source) ==
    CASE source \in {"llm", "LLM"} -> "LLM"
      [] source \in {"code", "CODE"} -> "CODE"
      [] OTHER -> "HUMAN"

\* addSpanAnnotation parses its source
ParseSpan(source) ==
    /\ Len(parsed) < MaxParses
    /\ parsed' = Append(parsed, [fn |-> "parseSpanAnnotatorKind", source |-> source,
                                 kind |-> parseSpanAnnotatorKind(source)])
    /\ UNCHANGED <<traceVars, evalVars, configVars, otelVars, transportVars,
                   projectVars, lifeVars>>

\* addTraceAnnotation parses its source
ParseTrace(source) ==
    /\ Len(parsed) < MaxParses
    /\ parsed' = Append(parsed, [fn |-> "parseTraceAnnotatorKind", source |-> source,
                                 kind |-> parseTraceAnnotatorKind(source)])
    /\ UNCHANGED <<traceVars, evalVars, configVars, otelVars, transportVars,
                   projectVars, lifeVars>>

Sources ==
    {"llm", "LLM", "code", "CODE", "human", "HUMAN", "", "unknown", "Llm",
     "cOde", " llm"}

KindInit ==
    /\ TraceInit
    /\ EvalIdle
    /\ ConfigIdle
    /\ OtelIdle
    /\ TransportIdle
    /\ ProjectIdle
    /\ LifeIdle
    /\ parsed = <<>>

KindNext ==
    \/ \E s \in Sources : ParseSpan(s)
    \/ \E s \in Sources : ParseTrace(s)

KindSpec == KindInit /\ [][KindNext]_vars

(***************************************************************************)
(* Annotator kinds: properties                                             *)
(***************************************************************************)

\* C16: parseSpanAnnotatorKind and parseTraceAnnotatorKind implement the
\* same total mapping: "llm" and "LLM" give LLM, "code" and "CODE" give
\* CODE, and every other string, among them "human", "HUMAN", the empty
\* string and unknown values, gives HUMAN.
C16_AnnotatorKind ==
    /\ \A i \in 1..Len(parsed) :
          parsed[i].kind =
              IF parsed[i].source = "llm" \/ parsed[i].source = "LLM" THEN "LLM"
              ELSE IF parsed[i].source = "code" \/ parsed[i].source = "CODE" THEN "CODE"
              ELSE "HUMAN"
    /\ \A i \in 1..Len(parsed) : \A j \in 1..Len(parsed) :
          parsed[i].source = parsed[j].source => parsed[i].kind = parsed[j].kind

\* both parsers have been given the same unknown source
C16_Witness ==
    \E i \in 1..Len(parsed) : \E j \in 1..Len(parsed) :
        /\ parsed[i].fn = "parseSpanAnnotatorKind"
        /\ parsed[j].fn = "parseTraceAnnotatorKind"
        /\ parsed[i].source = "unknown"
        /\ parsed[j].source = "unknown"
        /\ parsed[i].kind = "HUMAN"

(***************************************************************************)
(* traceWrapper / spanWrapper: End, EndTime, Duration                      *)
(*                                                                         *)
(* Time is a counter; a *time.Time is <<>> (nil) or <<t>>.                 *)
(***************************************************************************)

\* the latest time.Now() followed
MaxClock == 3

NilTime == <<>>

\* newTrace / newSpan: startTime is time.Now(), endTime is nil; otel is the
\* OTEL span the wrapper holds, errs the errors its methods have returned,
\* ends the number of End calls (counted up to 2)
newWrapper(kind, now) ==
    [kind |-> kind, startTime |-> now, endTime |-> NilTime,
     otel |-> [ended |-> FALSE, endTime |-> NilTime, attrs |-> {}],
     ends |-> 0, errs |-> {}]

\* otelSpan.SetAttributes(...): an ended OTEL span records nothing
otelSetAttributes(o, attr) ==
    IF o.ended THEN o ELSE [o EXCEPT !.attrs = @ \cup {attr}]

\* otelSpan.End(): the first call ends the span, later calls do nothing
otelEnd(o, now) ==
    IF o.ended THEN o ELSE [o EXCEPT !.ended = TRUE, !.endTime = <<now>>]

\* End(opts...) of both wrappers, with an output option or none
wrapperEnd(w, output, now) ==
    LET o1 == IF output # "" THEN otelSetAttributes(w.otel, <<"output.value", output>>)
              ELSE w.otel
    IN  [w EXCEPT !.otel = otelEnd(o1, now),
                  !.endTime = <<now>>,
                  !.ends = IF @ < 2 THEN @ + 1 ELSE @,
                  !.errs = @ \cup {"nil"}]

\* SetInput / SetOutput / SetMetadata / AddTag of both wrappers
wrapperSet(w, attr) ==
    [w EXCEPT !.otel = otelSetAttributes(w.otel, attr),
              !.errs = @ \cup {"nil"}]

\* EndTime()
EndTime(w) == w.endTime

\* Duration() called at time now
Duration(w, now) ==
    IF w.endTime # NilTime THEN w.endTime[1] - w.startTime
    ELSE now - w.startTime

\* time passes
Tick ==
    /\ clock < MaxClock
    /\ clock' = clock + 1
    /\ UNCHANGED <<wrappers, traceVars, evalVars, configVars, otelVars,
                   transportVars, projectVars, kindVars>>

\* traceWrapper.End / spanWrapper.End
End(i, output) ==
    /\ i \in 1..Len(wrappers)
    /\ wrappers' = [wrappers EXCEPT ![i] = wrapperEnd(@, output, clock)]
    /\ UNCHANGED <<clock, traceVars, evalVars, configVars, otelVars,
                   transportVars, projectVars, kindVars>>

\* a setter of traceWrapper / spanWrapper
Set(i, attr) ==
    /\ i \in 1..Len(wrappers)
    /\ wrappers' = [wrappers EXCEPT ![i] = wrapperSet(@, attr)]
    /\ UNCHANGED <<clock, traceVars, evalVars, configVars, otelVars,
                   transportVars, projectVars, kindVars>>

Attrs == {<<"input.value", "in">>, <<"tag.tags", "t">>}

\* a trace and a span of it, just started
LifeInit ==
    /\ TraceInit
    /\ EvalIdle
    /\ ConfigIdle
    /\ OtelIdle
    /\ TransportIdle
    /\ ProjectIdle
    /\ KindIdle
    /\ clock = 0
    /\ wrappers = <<newWrapper("trace", 0), newWrapper("span", 0)>>

LifeNext ==
    \/ Tick
    \/ \E i \in 1..2 : \E out \in {"", "done"} : End(i, out)
    \/ \E i \in 1..2 : \E a \in Attrs : Set(i, a)

LifeSpec == LifeInit /\ [][LifeNext]_vars

(***************************************************************************)
(* Lifecycle: properties                                                   *)
(***************************************************************************)

\* EndTime() is nil exactly until End has been called, and every method has
\* returned nil
LifeState(ws) ==
    \A i \in 1..Len(ws) :
        /\ (EndTime(ws[i]) = NilTime) <=> (ws[i].ends = 0)
        /\ ws[i].errs \subseteq {"nil"}

\* EndTime() and Duration() of the wrappers that have ended are the same
\* after the step as before it
LifeStable ==
    \A i \in 1..Len(wrappers) :
        wrappers[i].ends > 0 =>
            /\ EndTime(wrappers'[i]) = EndTime(wrappers[i])
            /\ Duration(wrappers'[i], clock') = Duration(wrappers[i], clock)

\* C17: EndTime() is nil until End has been called and non-nil afterwards;
\* once End has returned, EndTime() and Duration() never change again,
\* whatever operations follow, a second End among them; End and every
\* setter return a nil error.
C17_Lifecycle == [][LifeState(wrappers) /\ LifeState(wrappers') /\ LifeStable]_vars

\* the parts of C17 that hold: nil until End, non-nil after, nil errors
LifeStateHolds == LifeState(wrappers)

\* the OTEL span keeps the end time of the first End
OtelEndStable ==
    [][\A i \in 1..Len(wrappers) :
          wrappers[i].otel.ended => wrappers'[i].otel.endTime = wrappers[i].otel.endTime]_vars

====
